---- MODULE Spec2Model ----
(***************************************************************************)
(* Credit Card Welcome Bonus Tracker: the record store (storage.py), the   *)
(* command-line front-end (main.py), the desktop front-end (app.py) and    *)
(* the browser front-end (streamlit_app.py).                               *)
(*                                                                         *)
(* Text is a sequence of one-character strings, a Python list a sequence,  *)
(* a Python dict a function from keys to values wrapped with its type tag. *)
(* A datetime is <<proleptic ordinal day, second of the day>>.             *)
(***************************************************************************)
EXTENDS Integers, Sequences, FiniteSets, TLC

(***************************************************************************)
(* Bounds of the model.                                                    *)
(***************************************************************************)
MaxCards == 2
MaxWish == 1

(***************************************************************************)
(* Text.                                                                   *)
(***************************************************************************)
Digits == <<"0", "1", "2", "3", "4", "5", "6", "7", "8", "9">>

UpperLetters == <<"A", "B", "C", "D", "E", "F", "G", "H", "I", "J", "K", "L", "M",
                  "N", "O", "P", "Q", "R", "S", "T", "U", "V", "W", "X", "Y", "Z">>

LowerLetters == <<"a", "b", "c", "d", "e", "f", "g", "h", "i", "j", "k", "l", "m",
                  "n", "o", "p", "q", "r", "s", "t", "u", "v", "w", "x", "y", "z">>

\* the value of each decimal digit
DigitValues == [c \in {Digits[i] : i \in 1..10} |-> (CHOOSE i \in 1..10 : Digits[i] = c) - 1]

IsDigit(c) == c \in DOMAIN DigitValues

DigitVal(c) == DigitValues[c]

DigitChar(n) == Digits[n + 1]

IsSpace(c) == c = " "

\* the lower-case letter of each upper-case letter
LowerOfUpper == [c \in {UpperLetters[i] : i \in 1..26} |->
                    LowerLetters[CHOOSE i \in 1..26 : UpperLetters[i] = c]]

\* str.lower() on one character
LowerChar(c) == IF c \in DOMAIN LowerOfUpper THEN LowerOfUpper[c] ELSE c

\* str.lower()
Lower(s) == [i \in 1..Len(s) |-> LowerChar(s[i])]

\* str.strip(): leading and trailing white space removed
Strip(s) ==
    IF \A i \in 1..Len(s) : IsSpace(s[i])
    THEN << >>
    ELSE IF ~IsSpace(s[1]) /\ ~IsSpace(s[Len(s)])
    THEN s
    ELSE LET first == CHOOSE i \in 1..Len(s) :
                          ~IsSpace(s[i]) /\ \A j \in 1..(i - 1) : IsSpace(s[j])
             last  == CHOOSE i \in 1..Len(s) :
                          ~IsSpace(s[i]) /\ \A j \in (i + 1)..Len(s) : IsSpace(s[j])
         IN  SubSeq(s, first, last)

\* the Python test `sub in s`
Contains(s, sub) ==
    \E i \in 1..(Len(s) - Len(sub) + 1) : SubSeq(s, i, i + Len(sub) - 1) = sub

STR_chase == <<"c", "h", "a", "s", "e">>
STR_Unknown == <<"U", "n", "k", "n", "o", "w", "n">>
STR_NA == <<"N", "/", "A">>
STR_empty == << >>

\* value of a non-empty run of decimal digits
RECURSIVE DigitsValue(_)
DigitsValue(s) ==
    IF Len(s) = 0 THEN 0
    ELSE 10 * DigitsValue(SubSeq(s, 1, Len(s) - 1)) + DigitVal(s[Len(s)])

AllDigits(s) == Len(s) > 0 /\ \A i \in 1..Len(s) : IsDigit(s[i])

(***************************************************************************)
(* int(text): optional sign, then digits; single underscores may separate  *)
(* digits; surrounding white space is ignored.  The result is              *)
(* [ok |-> FALSE] for the ValueError and [ok |-> TRUE, n |-> value].       *)
(***************************************************************************)
RemoveUnderscores(s) == SelectSeq(s, LAMBDA c : c # "_")

IntBody(s) ==
    /\ Len(s) > 0
    /\ \A i \in 1..Len(s) : IsDigit(s[i]) \/ s[i] = "_"
    /\ IsDigit(s[1])
    /\ IsDigit(s[Len(s)])
    /\ \A i \in 1..(Len(s) - 1) : ~(s[i] = "_" /\ s[i + 1] = "_")

ParseInt(text) ==
    LET s    == Strip(text)
        sign == IF Len(s) > 0 /\ s[1] \in {"+", "-"} THEN s[1] ELSE ""
        body == IF sign = "" THEN s ELSE SubSeq(s, 2, Len(s))
    IN  IF IntBody(body)
        THEN [ok |-> TRUE,
              n  |-> IF sign = "-" THEN 0 - DigitsValue(RemoveUnderscores(body))
                                   ELSE DigitsValue(RemoveUnderscores(body))]
        ELSE [ok |-> FALSE]

(***************************************************************************)
(* Calendar.                                                               *)
(***************************************************************************)
IsLeap(y) == y % 4 = 0 /\ (y % 100 # 0 \/ y % 400 = 0)

DaysInMonth(y, m) ==
    IF m = 2 THEN (IF IsLeap(y) THEN 29 ELSE 28)
    ELSE IF m \in {4, 6, 9, 11} THEN 30 ELSE 31

DAYS_BEFORE_MONTH == <<0, 31, 59, 90, 120, 151, 181, 212, 243, 273, 304, 334>>

DaysBeforeYear(y) ==
    (y - 1) * 365 + ((y - 1) \div 4) - ((y - 1) \div 100) + ((y - 1) \div 400)

DaysBeforeMonth(y, m) ==
    DAYS_BEFORE_MONTH[m] + (IF m > 2 /\ IsLeap(y) THEN 1 ELSE 0)

\* date.toordinal()
ToOrdinal(y, m, d) == DaysBeforeYear(y) + DaysBeforeMonth(y, m) + d

\* date.fromordinal(): the year, month and day of an ordinal day
OrdYear(n) ==
    CHOOSE y \in ((n \div 366) + 1)..((n \div 365) + 1) :
        DaysBeforeYear(y) < n /\ n <= DaysBeforeYear(y + 1)

\* the month of day r of year y
MonthOfYearDay(y, r) ==
    CHOOSE m \in 1..12 :
        DaysBeforeMonth(y, m) < r /\ r <= DaysBeforeMonth(y, m) + DaysInMonth(y, m)

\* zero-padded decimal of the given width
RECURSIVE Pad(_, _)
Pad(n, width) ==
    IF width = 0 THEN << >>
    ELSE Append(Pad(n \div 10, width - 1), DigitChar(n % 10))

\* "%Y-%m-%d" of a year, a month and a day
StrfYMD(y, m, d) == Pad(y, 4) \o <<"-">> \o Pad(m, 2) \o <<"-">> \o Pad(d, 2)

\* "%Y-%m-%d" of day r of year y, which is in month m
StrfYearDay(y, r, m) == StrfYMD(y, m, r - DaysBeforeMonth(y, m))

\* "%Y-%m-%d" of the ordinal day n, which is in year y
StrfOfYear(n, y) ==
    StrfYearDay(y, n - DaysBeforeYear(y), MonthOfYearDay(y, n - DaysBeforeYear(y)))

\* datetime.strftime("%Y-%m-%d")
StrfIso(n) == StrfOfYear(n, OrdYear(n))

(***************************************************************************)
(* datetime.strptime(text, fmt) for the formats made of %Y, %m, %d and one *)
(* separator character.  order is the position of year, month and day.     *)
(* %Y is four digits, %m is 1..12 in one or two digits, %d is 1..31 in one *)
(* or two digits or a space and a digit; the day must exist in the month.  *)
(***************************************************************************)
SepPositions(s, sep) == {i \in 1..Len(s) : s[i] = sep}

\* the first and the last position of the separator in the text
FirstSep(s, sep) == CHOOSE i \in 1..Len(s) : s[i] = sep /\ \A j \in 1..(i - 1) : s[j] # sep

LastSep(s, sep) == CHOOSE i \in 1..Len(s) : s[i] = sep /\ \A j \in (i + 1)..Len(s) : s[j] # sep

\* the k-th of the three parts of a text with two separators
Part(s, sep, k) ==
    CASE k = 1 -> SubSeq(s, 1, FirstSep(s, sep) - 1)
      [] k = 2 -> SubSeq(s, FirstSep(s, sep) + 1, LastSep(s, sep) - 1)
      [] k = 3 -> SubSeq(s, LastSep(s, sep) + 1, Len(s))

YearField(s) == Len(s) = 4 /\ AllDigits(s)

MonthField(s) ==
    /\ Len(s) \in {1, 2}
    /\ AllDigits(s)
    /\ DigitsValue(s) \in 1..12

DayField(s) ==
    \/ /\ Len(s) \in {1, 2}
       /\ AllDigits(s)
       /\ DigitsValue(s) \in 1..31
    \/ /\ Len(s) = 2
       /\ s[1] = " "
       /\ IsDigit(s[2])
       /\ s[2] # "0"

DayValue(s) == IF s[1] = " " THEN DigitVal(s[2]) ELSE DigitsValue(s)

\* the date of a year, month and day, when it is a real date
DateOfNumbers(y, m, d) ==
    IF y >= 1 /\ d <= DaysInMonth(y, m)
    THEN [ok |-> TRUE, ord |-> ToOrdinal(y, m, d)]
    ELSE [ok |-> FALSE]

\* the date of the year, month and day texts, when they are a real date
DateOfFields(ys, ms, ds) ==
    IF YearField(ys) /\ MonthField(ms) /\ DayField(ds)
    THEN DateOfNumbers(DigitsValue(ys), DigitsValue(ms), DayValue(ds))
    ELSE [ok |-> FALSE]

Strptime(s, sep, order) ==
    IF Cardinality(SepPositions(s, sep)) # 2
    THEN [ok |-> FALSE]
    ELSE DateOfFields(Part(s, sep, order[1]), Part(s, sep, order[2]), Part(s, sep, order[3]))

\* "%Y-%m-%d", "%m/%d/%Y", "%Y/%m/%d", "%m-%d-%Y"
FMT_iso      == [sep |-> "-", order |-> <<1, 2, 3>>]
FMT_us_slash == [sep |-> "/", order |-> <<3, 1, 2>>]
FMT_ymd_slash == [sep |-> "/", order |-> <<1, 2, 3>>]
FMT_us_dash  == [sep |-> "-", order |-> <<3, 1, 2>>]

ParseWith(s, fmt) == Strptime(s, fmt.sep, fmt.order)

\* main.py / streamlit_app.py validate_date
validate_date(date_str) == ParseWith(date_str, FMT_iso).ok

\* main.py validate_points
validate_points(points_str) ==
    LET r == ParseInt(points_str) IN r.ok /\ r.n > 0

(***************************************************************************)
(* Python values and JSON text.  A list, dict, int or None in memory is    *)
(* tagged "list", "dict", "int", "none"; in the file the same shapes are   *)
(* "array", "object", "number", "null".  The values of a card's own keys   *)
(* (text and integers) are carried as they are.                            *)
(***************************************************************************)
PyList(v) == [t |-> "list", v |-> v]
PyDict(f) == [t |-> "dict", f |-> f]
PyInt(n) == [t |-> "int", n |-> n]
PyNone == [t |-> "none"]

ContainerKeys == {"current", "wishlist"}

\* json.dump / json.dumps
RECURSIVE json_dumps(_)
json_dumps(py) ==
    CASE py.t = "list" -> [t |-> "array", v |-> [i \in DOMAIN py.v |-> json_dumps(py.v[i])]]
      [] py.t = "dict" ->
            [t |-> "object",
             f |-> [k \in DOMAIN py.f |->
                       IF k \in ContainerKeys THEN json_dumps(py.f[k]) ELSE py.f[k]]]
      [] py.t = "int"  -> [t |-> "number", n |-> py.n]
      [] py.t = "none" -> [t |-> "null"]

\* json.loads / json.load of well-formed text
RECURSIVE json_loads(_)
json_loads(j) ==
    CASE j.t = "array" -> PyList([i \in DOMAIN j.v |-> json_loads(j.v[i])])
      [] j.t = "object" ->
            PyDict([k \in DOMAIN j.f |->
                       IF k \in ContainerKeys THEN json_loads(j.f[k]) ELSE j.f[k]])
      [] j.t = "number" -> PyInt(j.n)
      [] j.t = "null"   -> PyNone

(***************************************************************************)
(* The persisted file: absent together with the directory of its path,     *)
(* absent, unreadable, white space only, text that is not JSON, or JSON    *)
(* text.                                                                   *)
(***************************************************************************)
F_nodir == [k |-> "nodir"]
F_missing == [k |-> "missing"]
F_unreadable == [k |-> "unreadable"]
F_blank == [k |-> "blank"]
F_malformed == [k |-> "malformed"]
F_json(j) == [k |-> "json", j |-> j]

\* dict.get(key, default)
Get(f, key, default) == IF key \in DOMAIN f THEN f[key] ELSE default

(***************************************************************************)
(* storage.py                                                              *)
(***************************************************************************)
\* load_cards: the list returned and what was printed
load_cards(f) ==
    CASE f.k \in {"nodir", "missing"} -> [cards |-> << >>, printed |-> {}]
      [] f.k = "unreadable" -> [cards |-> << >>, printed |-> {"read_error"}]
      [] f.k = "blank"      -> [cards |-> << >>, printed |-> {}]
      [] f.k = "malformed"  -> [cards |-> << >>, printed |-> {"invalid_json"}]
      [] f.k = "json"       ->
            LET data == json_loads(f.j)
            IN  [cards |-> IF data.t = "list" THEN data.v ELSE << >>, printed |-> {}]

\* what the environment lets a write do
SaveOutcomes == {"ok", "open_fails", "write_fails"}

\* the file after open(path, "w") and the write of text j under outcome io
WriteFile(f, j, io) ==
    CASE io = "ok"          -> F_json(j)
      [] io = "open_fails"  -> f
      [] io = "write_fails" -> F_blank

\* save_cards whose except clause prints and does not raise again
save_cards_Swallow(f, cardList, io) ==
    [file    |-> IF f.k = "nodir" THEN f ELSE WriteFile(f, json_dumps(PyList(cardList)), io),
     raised  |-> FALSE,
     printed |-> IF f.k = "nodir" \/ io # "ok" THEN {"save_error"} ELSE {}]

\* save_cards: the file afterwards, whether the exception was raised and what
\* was printed; open(file_path, "w") fails when the directory is absent
save_cards(f, cardList, io) ==
    IF f.k = "nodir"
    THEN [file |-> f, raised |-> TRUE, printed |-> {"save_error"}]
    ELSE [file    |-> WriteFile(f, json_dumps(PyList(cardList)), io),
          raised  |-> io # "ok",
          printed |-> IF io = "ok" THEN {} ELSE {"save_error"}]

(***************************************************************************)
(* streamlit_app.py: normalisation, parsing and export                     *)
(***************************************************************************)
CardKeys == {"card_name", "welcome_points", "opened_date", "issuer", "benefits"}
WishKeys == {"card_name", "issuer", "target_points", "notes"}

\* normalize_card that does not read welcome_points
normalize_card_NoPoints(card) ==
    PyDict([card_name      |-> Get(card.f, "card_name", STR_Unknown),
            welcome_points |-> 0,
            opened_date    |-> Get(card.f, "opened_date", STR_empty),
            issuer         |-> Get(card.f, "issuer", STR_Unknown),
            benefits       |-> Get(card.f, "benefits", STR_empty)])

\* normalize_card of a dict
normalize_card(card) ==
    PyDict([card_name      |-> Get(card.f, "card_name", STR_Unknown),
            welcome_points |-> Get(card.f, "welcome_points", 0),
            opened_date    |-> Get(card.f, "opened_date", STR_empty),
            issuer         |-> Get(card.f, "issuer", STR_Unknown),
            benefits       |-> Get(card.f, "benefits", STR_empty)])

\* normalize_wishlist_card of a dict
normalize_wishlist_card(card) ==
    PyDict([card_name     |-> Get(card.f, "card_name", STR_Unknown),
            issuer        |-> Get(card.f, "issuer", STR_Unknown),
            target_points |-> Get(card.f, "target_points", 0),
            notes         |-> Get(card.f, "notes", STR_empty)])

\* c.get(...) raises AttributeError when c is not a dict
AllDicts(v) == \A i \in DOMAIN v : v[i].t = "dict"

\* parse_json_data: [ok |-> FALSE] when it raises
parse_json_data(data) ==
    CASE data.t = "list" ->
            IF AllDicts(data.v)
            THEN [ok |-> TRUE,
                  current  |-> [i \in DOMAIN data.v |-> normalize_card(data.v[i])],
                  wishlist |-> << >>]
            ELSE [ok |-> FALSE]
      [] data.t = "dict" ->
            LET hasCur  == "current" \in DOMAIN data.f /\ data.f["current"].t = "list"
                curDict == "current" \in DOMAIN data.f /\ data.f["current"].t = "dict"
                hasWish == "wishlist" \in DOMAIN data.f /\ data.f["wishlist"].t = "list"
                curOk   == hasCur => AllDicts(data.f["current"].v)
                wishOk  == hasWish => AllDicts(data.f["wishlist"].v)
                cur     == IF hasCur
                           THEN [i \in DOMAIN data.f["current"].v |->
                                    normalize_card(data.f["current"].v[i])]
                           ELSE IF ~curDict THEN <<normalize_card(data)>> ELSE << >>
                wish    == IF hasWish
                           THEN [i \in DOMAIN data.f["wishlist"].v |->
                                    normalize_wishlist_card(data.f["wishlist"].v[i])]
                           ELSE << >>
            IN  IF curOk /\ wishOk
                THEN [ok |-> TRUE, current |-> cur, wishlist |-> wish]
                ELSE [ok |-> FALSE]
      [] OTHER -> [ok |-> TRUE, current |-> << >>, wishlist |-> << >>]

\* export_json_data that leaves the wishlist out of the document
export_json_data_NoWishlist(current_cards, wishlist_cards) ==
    json_dumps(PyDict([current |-> PyList(current_cards)]))

\* export_json_data
export_json_data(current_cards, wishlist_cards) ==
    json_dumps(PyDict([current  |-> PyList(current_cards),
                       wishlist |-> PyList(wishlist_cards)]))

(***************************************************************************)
(* streamlit_app.py: the derived metrics                                   *)
(***************************************************************************)
DAYS_24_MONTHS == 730

\* the formats count_chase_5_24 tries, in its order
ACCEPTED_FORMATS == <<FMT_iso, FMT_us_slash, FMT_ymd_slash, FMT_us_dash>>

\* try: parsed = strptime(...); break / except ValueError: continue
ParsedOrNext(r, next) == IF r.ok THEN r ELSE next

\* first format that parses, [ok |-> FALSE] for parsed = None
RECURSIVE TryFormats(_, _)
TryFormats(date_str, k) ==
    IF k > Len(ACCEPTED_FORMATS) THEN [ok |-> FALSE]
    ELSE ParsedOrNext(ParseWith(date_str, ACCEPTED_FORMATS[k]), TryFormats(date_str, k + 1))

\* datetime comparison a >= b
DtGE(a, b) == a[1] > b[1] \/ (a[1] = b[1] /\ a[2] >= b[2])

\* the test `"chase" in issuer.lower()` on the stripped issuer
IsChase(card) == Contains(Lower(Strip(Get(card.f, "issuer", STR_empty))), STR_chase)

\* oldest_date = None
NoDate == 0

\* the body of the loop that keeps the newest counted date, not the oldest
Visit5_24_Newest(card, date_str, parsed, cutoff, acc) ==
    IF /\ IsChase(card)
       /\ date_str # STR_empty
       /\ parsed.ok
       /\ DtGE(<<parsed.ord, 0>>, cutoff)
    THEN [count  |-> acc.count + 1,
          oldest |-> IF acc.oldest = NoDate \/ parsed.ord > acc.oldest
                     THEN parsed.ord ELSE acc.oldest]
    ELSE acc

\* the body of the loop of count_chase_5_24 for one card, whose stripped
\* opened_date is date_str and parses to parsed
Visit5_24(card, date_str, parsed, cutoff, acc) ==
    IF /\ IsChase(card)
       /\ date_str # STR_empty
       /\ parsed.ok
       /\ DtGE(<<parsed.ord, 0>>, cutoff)
    THEN [count  |-> acc.count + 1,
          oldest |-> IF acc.oldest = NoDate \/ parsed.ord < acc.oldest
                     THEN parsed.ord ELSE acc.oldest]
    ELSE acc

\* the date formats tried on the stripped opened_date of the card
VisitCard(card, date_str, cutoff, acc) ==
    Visit5_24(card, date_str, TryFormats(date_str, 1), cutoff, acc)

\* the loop of count_chase_5_24 from the card at position i on
RECURSIVE Loop5_24(_, _, _, _)
Loop5_24(current_cards, i, cutoff, acc) ==
    IF i > Len(current_cards) THEN acc
    ELSE Loop5_24(current_cards, i + 1, cutoff,
                  VisitCard(current_cards[i],
                            Strip(Get(current_cards[i].f, "opened_date", STR_empty)),
                            cutoff, acc))

\* the pair count_chase_5_24 returns for the loop's result
Result5_24(acc) ==
    [chase_count |-> acc.count,
     next_drop   |-> IF acc.oldest # NoDate
                     THEN StrfIso(acc.oldest + DAYS_24_MONTHS)
                     ELSE STR_NA]

\* count_chase_5_24 with datetime.now() = nowDt
count_chase_5_24(current_cards, nowDt) ==
    Result5_24(Loop5_24(current_cards, 1, <<nowDt[1] - DAYS_24_MONTHS, nowDt[2]>>,
                        [count |-> 0, oldest |-> NoDate]))

\* sum(card.get(key, 0) for card in list)
RECURSIVE SumField(_, _)
SumField(list, key) ==
    IF Len(list) = 0 THEN 0
    ELSE Get(Head(list).f, key, 0) + SumField(Tail(list), key)

total_welcome_points(current_cards) == SumField(current_cards, "welcome_points")

\* total_wishlist_points summing the key of the current cards
total_wishlist_points_WrongKey(wishlist_cards) == SumField(wishlist_cards, "welcome_points")

total_wishlist_points(wishlist_cards) == SumField(wishlist_cards, "target_points")

(***************************************************************************)
(* Inputs: what the user types and what the files hold.                    *)
(***************************************************************************)
S_A == <<"A">>
S_B_spaced == <<" ", "B", " ">>
S_spaces == <<" ">>

ISS_Chase == <<"C", "h", "a", "s", "e">>
ISS_CHASE_Bank == <<"C", "H", "A", "S", "E", " ", "B", "k">>
ISS_Citi == <<"C", "i", "t", "i">>

D_recent == <<"2", "0", "2", "4", "-", "0", "1", "-", "0", "5">>
D_future == <<"2", "0", "2", "6", "-", "0", "1", "-", "0", "1">>
D_cutoff == <<"2", "0", "2", "3", "-", "0", "6", "-", "1", "6">>
D_old == <<"2", "0", "2", "0", "-", "0", "3", "-", "0", "1">>
D_unpadded == <<"2", "0", "2", "4", "-", "1", "-", "5">>
D_notreal == <<"2", "0", "2", "3", "-", "0", "2", "-", "3", "0">>
D_us == <<"0", "3", "/", "0", "9", "/", "2", "0", "2", "4">>

NameInputs == {S_A, S_B_spaced, S_spaces, STR_empty}
PointsInputs == {<<"5">>, <<"0">>, <<"-", "3">>, <<"x">>, STR_empty}
DateInputs == {D_recent, D_unpadded, D_notreal, D_us, STR_empty}

\* the three entries of the desktop form
GuiInputs ==
    {[name |-> n, points |-> <<"5">>, date |-> D_recent] : n \in NameInputs}
    \cup {[name |-> S_A, points |-> p, date |-> D_notreal] : p \in PointsInputs}
    \cup {[name |-> S_A, points |-> <<"5">>, date |-> d] : d \in DateInputs}

\* the web form of a current card: text inputs, the issuer select box and
\* the number input (min_value = 0)
WebCardInputs ==
    {[name |-> S_B_spaced, date |-> D_future, issuer |-> ISS_Chase, points |-> 0, benefits |-> <<" ", "x">>],
     [name |-> S_spaces, date |-> D_recent, issuer |-> ISS_Chase, points |-> 5, benefits |-> STR_empty],
     [name |-> S_A, date |-> D_notreal, issuer |-> ISS_Citi, points |-> 5, benefits |-> STR_empty],
     [name |-> STR_empty, date |-> S_spaces, issuer |-> ISS_Citi, points |-> 0, benefits |-> STR_empty]}

\* the web form of a wishlist card
WebWishInputs ==
    {[name |-> S_B_spaced, issuer |-> ISS_Chase, points |-> 9, notes |-> <<"n", " ">>],
     [name |-> S_spaces, issuer |-> ISS_Citi, points |-> 9, notes |-> STR_empty]}

\* cards as the files hold them
J_obj(f) == [t |-> "object", f |-> f]
J_arr(v) == [t |-> "array", v |-> v]

J_legacyA == J_obj([card_name |-> S_A, welcome_points |-> 5, opened_date |-> D_recent])
J_legacyNoName == J_obj([welcome_points |-> 3, opened_date |-> D_old])
J_chaseCutoff ==
    J_obj([card_name |-> S_A, welcome_points |-> 4, opened_date |-> D_cutoff,
           issuer |-> ISS_CHASE_Bank, benefits |-> STR_empty])
J_chaseUs ==
    J_obj([card_name |-> <<"U">>, welcome_points |-> 6, opened_date |-> D_us,
           issuer |-> ISS_Chase, benefits |-> STR_empty, extra |-> 1])
J_wish == J_obj([card_name |-> <<"W">>, issuer |-> ISS_Citi, target_points |-> 8, notes |-> STR_empty])
J_number == [t |-> "number", n |-> 1]

JsonTexts ==
    {J_arr(<<J_legacyA, J_legacyNoName>>),
     J_arr(<<J_number>>),
     J_number,
     J_obj([current |-> J_arr(<<J_chaseCutoff, J_chaseUs>>),
            wishlist |-> J_arr(<<J_wish>>)]),
     J_obj([wishlist |-> J_arr(<<J_wish>>)])}

FileContents ==
    {F_nodir, F_missing, F_unreadable, F_blank, F_malformed} \cup {F_json(j) : j \in JsonTexts}

\* the file uploader: no file, or the bytes of one
NoUpload == [k |-> "none"]
Uploads == {NoUpload, F_malformed, F_json(J_arr(<<J_legacyA>>))}

\* datetime.now(): 2025-06-15 at noon; the clock of a run that never reads it
NowChoices == {<<ToOrdinal(2025, 6, 15), 43200>>}
NoClock == <<0, 0>>

(***************************************************************************)
(* State.                                                                  *)
(***************************************************************************)
VARIABLES
    fe,           \* the front-end of this run: "cli", "gui" or "web"
    pc,           \* where the run is
    file,         \* the persisted file
    cards,        \* the in-memory current list
    wishlist,     \* the in-memory wishlist (web)
    pending,      \* main.py add_card: the fields entered so far
    msg,          \* what the last step reported to the user
    tree,         \* app.py: the rows of the table
    mode,         \* streamlit_app.py: st.session_state.mode
    uploaded,     \* streamlit_app.py: the value of the file uploader
    now,          \* streamlit_app.py: datetime.now() of the last run
    metrics       \* streamlit_app.py: the values shown by the last run

vars == <<fe, pc, file, cards, wishlist, pending, msg, tree, mode, uploaded, now, metrics>>

NoPending == [stage |-> "none"]
NoMetrics == [shown |-> FALSE]

Init ==
    /\ fe \in {"cli", "gui", "web"}
    /\ pc = "start"
    /\ file \in FileContents
    /\ cards = << >>
    /\ wishlist = << >>
    /\ pending = NoPending
    /\ msg = {}
    /\ tree = << >>
    /\ mode = "unset"
    /\ uploaded = NoUpload
    /\ now \in (IF fe = "web" THEN NowChoices ELSE {NoClock})
    /\ metrics = NoMetrics

\* a card that can be shown: card["card_name"], card["welcome_points"],
\* card["opened_date"] raise on anything else
Showable(card) ==
    /\ card.t = "dict"
    /\ {"card_name", "welcome_points", "opened_date"} \subseteq DOMAIN card.f

\* list.pop() without its index: the last element goes
RemoveAt_Last(list, i) == SubSeq(list, 1, Len(list) - 1)

\* list.pop(i) with the index counted from 1
RemoveAt(list, i) == SubSeq(list, 1, i - 1) \o SubSeq(list, i + 1, Len(list))

(***************************************************************************)
(* main.py: the command-line front-end                                     *)
(***************************************************************************)
\* show_menu: load_cards(CARDS_FILE) and the banner
CliStart ==
    /\ fe = "cli" /\ pc = "start"
    /\ cards' = load_cards(file).cards
    /\ msg' = load_cards(file).printed
    /\ pc' = "menu"
    /\ UNCHANGED <<fe, file, wishlist, pending, tree, mode, uploaded, now, metrics>>

\* choice "1": list_cards; an exception leaves show_menu and is caught by main
CliList ==
    /\ fe = "cli" /\ pc = "menu"
    /\ IF \A i \in DOMAIN cards : Showable(cards[i])
       THEN /\ msg' = {"listed"}
            /\ pc' = "menu"
       ELSE /\ msg' = {"unexpected_error"}
            /\ pc' = "done"
    /\ UNCHANGED <<fe, file, cards, wishlist, pending, tree, mode, uploaded, now>>
    /\ UNCHANGED metrics

\* choice "2": add_card up to the card name prompt
CliAddName(name_input) ==
    /\ fe = "cli" /\ pc = "menu"
    /\ Len(cards) < MaxCards
    /\ LET card_name == Strip(name_input)
       IN  IF card_name = STR_empty
           THEN /\ msg' = {"name_empty"}
                /\ pending' = NoPending
                /\ pc' = "menu"
           ELSE /\ msg' = {}
                /\ pending' = [stage |-> "points", card_name |-> card_name]
                /\ pc' = "points"
    /\ UNCHANGED <<fe, file, cards, wishlist, tree, mode, uploaded, now, metrics>>

\* add_card: one turn of the welcome points loop
CliAddPoints(points_input) ==
    /\ fe = "cli" /\ pc = "points"
    /\ IF validate_points(Strip(points_input))
       THEN /\ pending' = [stage |-> "date", card_name |-> pending.card_name,
                           welcome_points |-> ParseInt(Strip(points_input)).n]
            /\ msg' = {}
            /\ pc' = "date"
       ELSE /\ msg' = {"points_invalid"}
            /\ UNCHANGED <<pending, pc>>
    /\ UNCHANGED <<fe, file, cards, wishlist, tree, mode, uploaded, now, metrics>>

\* add_card: one turn of the opened date loop, then the append
CliAddDate(date_input) ==
    /\ fe = "cli" /\ pc = "date"
    /\ IF validate_date(Strip(date_input))
       THEN /\ cards' = Append(cards, PyDict([card_name      |-> pending.card_name,
                                              welcome_points |-> pending.welcome_points,
                                              opened_date    |-> Strip(date_input)]))
            /\ pending' = NoPending
            /\ msg' = {"added"}
            /\ pc' = "menu"
       ELSE /\ msg' = {"date_invalid"}
            /\ UNCHANGED <<cards, pending, pc>>
    /\ UNCHANGED <<fe, file, wishlist, tree, mode, uploaded, now, metrics>>

\* choice "3": save_cards and leave; a raise is caught by main
CliSaveExit(io) ==
    /\ fe = "cli" /\ pc = "menu"
    /\ LET r == save_cards(file, cards, io)
       IN  /\ file' = r.file
           /\ msg' = IF r.raised THEN r.printed \cup {"unexpected_error"} ELSE {"saved"}
    /\ pc' = "done"
    /\ UNCHANGED <<fe, cards, wishlist, pending, tree, mode, uploaded, now, metrics>>

\* any other choice
CliInvalidChoice ==
    /\ fe = "cli" /\ pc = "menu"
    /\ msg' = {"invalid_choice"}
    /\ UNCHANGED <<fe, pc, file, cards, wishlist, pending, tree, mode, uploaded, now, metrics>>

\* an interrupt handler that writes the list before leaving
CliInterrupt_Saves ==
    /\ fe = "cli" /\ pc \in {"menu", "points", "date"}
    /\ msg' = {"interrupted"}
    /\ pc' = "done"
    /\ file' = save_cards(file, cards, "ok").file
    /\ UNCHANGED <<fe, cards, wishlist, pending, tree, mode, uploaded, now, metrics>>

\* KeyboardInterrupt at a prompt, caught by main
CliInterrupt ==
    /\ fe = "cli" /\ pc \in {"menu", "points", "date"}
    /\ msg' = {"interrupted"}
    /\ pc' = "done"
    /\ UNCHANGED <<fe, file, cards, wishlist, pending, tree, mode, uploaded, now, metrics>>

(***************************************************************************)
(* app.py: the desktop front-end                                           *)
(***************************************************************************)
\* a refresh_table that inserts every row at the top of the table
Rows_Reversed(list) ==
    [i \in DOMAIN list |->
        <<list[Len(list) + 1 - i].f["card_name"],
          list[Len(list) + 1 - i].f["welcome_points"],
          list[Len(list) + 1 - i].f["opened_date"]>>]

\* the rows refresh_table inserts
Rows(list) ==
    [i \in DOMAIN list |->
        <<list[i].f["card_name"], list[i].f["welcome_points"], list[i].f["opened_date"]>>]

\* __init__: load_cards, build_ui, refresh_table; a raise ends the program
GuiStart ==
    /\ fe = "gui" /\ pc = "start"
    /\ LET loaded == load_cards(file)
       IN  /\ cards' = loaded.cards
           /\ IF \A i \in DOMAIN loaded.cards : Showable(loaded.cards[i])
              THEN /\ tree' = Rows(loaded.cards)
                   /\ msg' = loaded.printed
                   /\ pc' = "running"
              ELSE /\ tree' = << >>
                   /\ msg' = loaded.printed \cup {"traceback"}
                   /\ pc' = "crashed"
    /\ UNCHANGED <<fe, file, wishlist, pending, mode, uploaded, now, metrics>>

\* add_card
GuiAdd(name_input, points_input, date_input) ==
    /\ fe = "gui" /\ pc = "running"
    /\ Len(cards) < MaxCards
    /\ LET card_name  == Strip(name_input)
           points_str == Strip(points_input)
           date_str   == Strip(date_input)
           points     == ParseInt(points_str)
       IN  IF card_name = STR_empty
           THEN /\ msg' = {"name_empty"}
                /\ UNCHANGED <<cards, tree>>
           ELSE IF ~points.ok \/ points.n <= 0
           THEN /\ msg' = {"points_invalid"}
                /\ UNCHANGED <<cards, tree>>
           ELSE IF ~ParseWith(date_str, FMT_iso).ok
           THEN /\ msg' = {"date_invalid"}
                /\ UNCHANGED <<cards, tree>>
           ELSE /\ cards' = Append(cards, PyDict([card_name      |-> card_name,
                                                  welcome_points |-> points.n,
                                                  opened_date    |-> date_str]))
                /\ tree' = Rows(cards')
                /\ msg' = {"added"}
    /\ UNCHANGED <<fe, pc, file, wishlist, pending, mode, uploaded, now, metrics>>

\* delete_card: selected is the selected row, 0 for no selection
GuiDelete(selected, confirmed) ==
    /\ fe = "gui" /\ pc = "running"
    /\ selected \in 0..Len(tree)
    /\ IF selected = 0
       THEN /\ msg' = {"no_selection"}
            /\ UNCHANGED <<cards, tree>>
       ELSE IF confirmed
       THEN /\ cards' = RemoveAt(cards, selected)
            /\ tree' = Rows(cards')
            /\ msg' = {"deleted"}
       ELSE /\ msg' = {}
            /\ UNCHANGED <<cards, tree>>
    /\ UNCHANGED <<fe, pc, file, wishlist, pending, mode, uploaded, now, metrics>>

\* save_cards_to_file
GuiSave(io) ==
    /\ fe = "gui" /\ pc = "running"
    /\ LET r == save_cards(file, cards, io)
       IN  /\ file' = r.file
           /\ msg' = IF r.raised THEN r.printed \cup {"save_failed"} ELSE {"saved"}
    /\ UNCHANGED <<fe, pc, cards, wishlist, pending, tree, mode, uploaded, now, metrics>>

\* on_closing: save, then destroy the window whatever the save did
GuiClose(io) ==
    /\ fe = "gui" /\ pc = "running"
    /\ LET r == save_cards(file, cards, io)
       IN  /\ file' = r.file
           /\ msg' = IF r.raised THEN r.printed \cup {"save_failed"} ELSE {}
    /\ pc' = "done"
    /\ UNCHANGED <<fe, cards, wishlist, pending, tree, mode, uploaded, now, metrics>>

(***************************************************************************)
(* streamlit_app.py: the browser front-end.  One action is one run of the  *)
(* script main(), together with the run that st.rerun() starts.            *)
(***************************************************************************)
\* json.loads of the uploaded bytes, then parse_json_data
ParseUpload(up) ==
    IF up.k = "json" THEN parse_json_data(json_loads(up.j)) ELSE [ok |-> FALSE]

\* the outcome of one of the four load attempts of main: the lists become
\* those of r when it parsed, and stay cur and wish when it raised
Loaded(r, cur, wish, m, report) ==
    IF r.ok
    THEN [cards |-> r.current, wishlist |-> r.wishlist, mode |-> m, msg |-> {}]
    ELSE [cards |-> cur, wishlist |-> wish, mode |-> m, msg |-> report]

\* the local branch: os.path.exists, json.load, parse_json_data
LocalText(f) ==
    IF f.k = "json" THEN parse_json_data(json_loads(f.j)) ELSE [ok |-> FALSE]

\* a "Load data" section that reads the local file in every run without an
\* uploaded file
LoadPhase_AlwaysReload(m, up, f, cur, wish) ==
    IF up # NoUpload
    THEN IF m = "uploaded"
         THEN [cards |-> cur, wishlist |-> wish, mode |-> m, msg |-> {}]
         ELSE Loaded(ParseUpload(up), cur, wish,
                     IF m = "unset" \/ ParseUpload(up).ok THEN "uploaded" ELSE m, {})
    ELSE Loaded(LocalText(f), cur, wish, "local", {})

\* the "Load data" section of main
LoadPhase(m, up, f, cur, wish) ==
    IF m = "unset"
    THEN IF up # NoUpload
         THEN Loaded(ParseUpload(up), cur, wish, "uploaded", {"upload_parse_error"})
         ELSE Loaded(LocalText(f), cur, wish, "local", {})
    ELSE IF up # NoUpload /\ m # "uploaded"
         THEN Loaded(ParseUpload(up), cur, wish,
                     IF ParseUpload(up).ok THEN "uploaded" ELSE m, {})
         ELSE IF up = NoUpload /\ m # "local"
         THEN Loaded(LocalText(f), cur, wish, "local", {})
         ELSE [cards |-> cur, wishlist |-> wish, mode |-> m, msg |-> {}]

\* the "Compute values" section of main
Compute(cur, wish, nowDt) ==
    count_chase_5_24(cur, nowDt) @@
    [shown     |-> TRUE,
     total_pts |-> total_welcome_points(cur),
     wish_pts  |-> total_wishlist_points(wish)]

\* the state a run of main leaves: the loaded lists, the mode and the values
\* computed from them
Shows(L) ==
    /\ cards' = L.cards
    /\ wishlist' = L.wishlist
    /\ mode' = L.mode
    /\ \E m \in {Compute(L.cards, L.wishlist, now)} : metrics' = m

\* the run that st.rerun() starts after a button changed the lists of the
\* run L to cur and wish
Rerun(L, cur, wish) ==
    \E L2 \in {LoadPhase(L.mode, uploaded, file, cur, wish)} : Shows(L2)

WebFrame == UNCHANGED <<fe, pending, tree, now>>

\* the first run of a session (no file uploaded yet), and any run in which
\* no button was pressed: the uploader changed to up, or another widget did
WebRun(up) ==
    /\ fe = "web"
    /\ pc = "start" => up = NoUpload
    /\ uploaded' = up
    /\ pc' = "running"
    /\ UNCHANGED file
    /\ WebFrame
    /\ \E L \in {LoadPhase(mode, up, file, cards, wishlist)} :
           /\ msg' = L.msg
           /\ Shows(L)

\* the delete button of row idx of the current cards
WebDeleteCurrent(idx) ==
    /\ fe = "web" /\ pc = "running"
    /\ idx \in 1..Len(cards)
    /\ msg' = {}
    /\ UNCHANGED <<pc, file, uploaded>>
    /\ WebFrame
    /\ \E L \in {LoadPhase(mode, uploaded, file, cards, wishlist)} :
           /\ idx \in 1..Len(L.cards)
           /\ Rerun(L, RemoveAt(L.cards, idx), L.wishlist)

\* the messages of the "Add Card" button for the entered name and date
AddCardErrors(add_name, add_date) ==
    (IF Strip(add_name) = STR_empty THEN {"name_required"} ELSE {})
    \cup
    (IF Strip(add_date) = STR_empty THEN {"date_required"}
     ELSE IF ~validate_date(Strip(add_date)) THEN {"date_invalid"}
     ELSE {})

\* the "Add Card" button
WebAddCard(in) ==
    /\ fe = "web" /\ pc = "running"
    /\ Len(cards) < MaxCards
    /\ \E L \in {LoadPhase(mode, uploaded, file, cards, wishlist)},
          errors \in {AddCardErrors(in.name, in.date)} :
           IF errors # {}
           THEN /\ msg' = errors
                /\ Shows(L)
           ELSE /\ msg' = {"added"}
                /\ Rerun(L, Append(L.cards,
                                   PyDict([card_name      |-> Strip(in.name),
                                           opened_date    |-> Strip(in.date),
                                           issuer         |-> in.issuer,
                                           welcome_points |-> in.points,
                                           benefits       |-> Strip(in.benefits)])),
                         L.wishlist)
    /\ UNCHANGED <<pc, file, uploaded>>
    /\ WebFrame

\* the delete button of row idx of the wishlist
WebDeleteWish(idx) ==
    /\ fe = "web" /\ pc = "running"
    /\ idx \in 1..Len(wishlist)
    /\ msg' = {}
    /\ UNCHANGED <<pc, file, uploaded>>
    /\ WebFrame
    /\ \E L \in {LoadPhase(mode, uploaded, file, cards, wishlist)} :
           /\ idx \in 1..Len(L.wishlist)
           /\ Rerun(L, L.cards, RemoveAt(L.wishlist, idx))

\* the "Add to Wishlist" button
WebAddWish(in) ==
    /\ fe = "web" /\ pc = "running"
    /\ Len(wishlist) < MaxWish
    /\ \E L \in {LoadPhase(mode, uploaded, file, cards, wishlist)} :
           IF Strip(in.name) = STR_empty
           THEN /\ msg' = {"name_required"}
                /\ Shows(L)
           ELSE /\ msg' = {"added"}
                /\ Rerun(L, L.cards,
                         Append(L.wishlist,
                                PyDict([card_name     |-> Strip(in.name),
                                        issuer        |-> in.issuer,
                                        target_points |-> in.points,
                                        notes         |-> Strip(in.notes)])))
    /\ UNCHANGED <<pc, file, uploaded>>
    /\ WebFrame

\* os.makedirs(parent, exist_ok=True) when the directory is absent
MakeDirs(f) == IF f.k = "nodir" THEN F_missing ELSE f

\* save_to_file: the file afterwards and whether the exception was raised
save_to_file(f, cur, wish, io) ==
    [file   |-> WriteFile(MakeDirs(f), export_json_data(cur, wish), io),
     raised |-> io # "ok",
     save_message |-> IF io = "ok" THEN {"saved"} ELSE {"save_error"}]

\* the "Save" button of Local File Mode (shown when no file is uploaded); the
\* exception save_to_file raises is not caught by main and ends the run
WebSave(io) ==
    /\ fe = "web" /\ pc = "running"
    /\ uploaded = NoUpload
    /\ UNCHANGED <<pc, uploaded>>
    /\ WebFrame
    /\ \E L \in {LoadPhase(mode, uploaded, file, cards, wishlist)} :
           /\ \E r \in {save_to_file(file, L.cards, L.wishlist, io)} :
                  /\ file' = r.file
                  /\ msg' = r.save_message
                            \cup (IF r.raised THEN {"uncaught_exception"} ELSE {})
           /\ Shows(L)

(***************************************************************************)
(* The program.                                                            *)
(***************************************************************************)
Next ==
    \/ CliStart
    \/ CliList
    \/ \E n \in NameInputs : CliAddName(n)
    \/ \E p \in PointsInputs : CliAddPoints(p)
    \/ \E d \in DateInputs : CliAddDate(d)
    \/ \E io \in SaveOutcomes : CliSaveExit(io)
    \/ CliInvalidChoice
    \/ CliInterrupt
    \/ GuiStart
    \/ \E in \in GuiInputs : GuiAdd(in.name, in.points, in.date)
    \/ \E sel \in 0..(MaxCards + 1), c \in BOOLEAN : GuiDelete(sel, c)
    \/ \E io \in SaveOutcomes : GuiSave(io)
    \/ \E io \in SaveOutcomes : GuiClose(io)
    \/ \E up \in Uploads : WebRun(up)
    \/ \E idx \in 1..(MaxCards + 1) : WebDeleteCurrent(idx)
    \/ \E in \in WebCardInputs : WebAddCard(in)
    \/ \E idx \in 1..(MaxWish + 1) : WebDeleteWish(idx)
    \/ \E in \in WebWishInputs : WebAddWish(in)
    \/ \E io \in SaveOutcomes : WebSave(io)

Spec == Init /\ [][Next]_vars

(***************************************************************************)
(* Steps of the program the properties speak about.                        *)
(***************************************************************************)
\* a step that loads the persisted file: the start of a run, and the web
\* front-end going back from an uploaded file to the local file
LoadsFile ==
    \/ pc = "start" /\ pc' # "start"
    \/ fe = "web" /\ mode = "uploaded" /\ mode' = "local"

\* a step that loads an uploaded file in the web front-end
LoadsUpload == fe = "web" /\ mode = "local" /\ mode' = "uploaded"

\* a step in which a save was made and succeeded
SavedOk == msg' = {"saved"}

\* a step in which an add appended a current card
AddedCard == msg' = {"added"} /\ Len(cards') = Len(cards) + 1

IsArrayOfObjects(f) ==
    /\ f.k = "json"
    /\ f.j.t = "array"
    /\ \A i \in DOMAIN f.j.v : f.j.v[i].t = "object"

IsStructured(f) ==
    /\ f.k = "json"
    /\ f.j.t = "object"
    /\ ContainerKeys \subseteq DOMAIN f.j.f
    /\ \A k \in ContainerKeys : f.j.f[k].t = "array"

\* the records of a JSON array of objects on the keys given, the defaults
\* standing for the keys an object does not have
RecordsOf(arr, defaults) ==
    [i \in DOMAIN arr |->
        [k \in DOMAIN defaults |-> Get(arr[i].f, k, defaults[k])]]

CardDefaults ==
    [card_name |-> STR_Unknown, welcome_points |-> 0, opened_date |-> STR_empty,
     issuer |-> STR_Unknown, benefits |-> STR_empty]

WishDefaults ==
    [card_name |-> STR_Unknown, issuer |-> STR_Unknown, target_points |-> 0,
     notes |-> STR_empty]

\* the fields of the records of an in-memory list
FieldsOf(list) == [i \in DOMAIN list |-> list[i].f]

(***************************************************************************)
(* C1.  Round trip: whenever a front-end saves its in-memory document, the *)
(* load of that front-end applied to the file just written gives back the  *)
(* same current cards and the same wishlist cards, field for field.        *)
(***************************************************************************)
RoundTrips(f, cur, wish) ==
    IF fe = "web"
    THEN /\ LocalText(f).ok
         /\ LocalText(f).current = cur
         /\ LocalText(f).wishlist = wish
    ELSE load_cards(f).cards = cur

C1_RoundTrip == [][SavedOk => RoundTrips(file', cards', wishlist')]_vars

C1_Witness ==
    /\ fe = "web"
    /\ msg = {"saved"}
    /\ Len(cards) = 2
    /\ Len(wishlist) = 1
    /\ file = F_json(export_json_data(cards, wishlist))

(***************************************************************************)
(* C2.  Every load entry point turns a structured file                     *)
(* {"current": [...], "wishlist": [...]} into a current list equal to the  *)
(* file's current list and a wishlist equal to the file's wishlist.        *)
(***************************************************************************)
C2_StructuredLoad ==
    [][(LoadsFile /\ IsStructured(file)) =>
          /\ FieldsOf(cards') = RecordsOf(file.j.f["current"].v, CardDefaults)
          /\ FieldsOf(wishlist') = RecordsOf(file.j.f["wishlist"].v, WishDefaults)]_vars

(***************************************************************************)
(* C3.  Loading a legacy bare array of card objects gives an empty         *)
(* wishlist and a current list with one record per array element, in the   *)
(* same order, each with the card_name, welcome_points and opened_date of   *)
(* its element.                                                             *)
(***************************************************************************)
LegacyKeys == {"card_name", "welcome_points", "opened_date"}

MatchesArray(arr, cur, wish) ==
    /\ wish = << >>
    /\ Len(cur) = Len(arr)
    /\ \A i \in DOMAIN arr :
           /\ cur[i].t = "dict"
           /\ \A k \in LegacyKeys \cap DOMAIN arr[i].f :
                  k \in DOMAIN cur[i].f /\ cur[i].f[k] = arr[i].f[k]

C3_LegacyLoad ==
    [][/\ (LoadsFile /\ IsArrayOfObjects(file)) =>
              MatchesArray(file.j.v, cards', wishlist')
       /\ (LoadsUpload /\ IsArrayOfObjects(uploaded')) =>
              MatchesArray(uploaded'.j.v, cards', wishlist')]_vars

C3_Witness ==
    /\ fe = "web"
    /\ pc = "running"
    /\ mode = "local"
    /\ msg = {}
    /\ file = F_json(J_arr(<<J_legacyA, J_legacyNoName>>))
    /\ Len(cards) = 2
    /\ cards[1].f["card_name"] = S_A
    /\ cards[2].f["welcome_points"] = 3
    /\ wishlist = << >>

(***************************************************************************)
(* C4.  A load never raises to its caller: a missing or blank file gives   *)
(* the empty document, and a file of malformed JSON is reported and gives  *)
(* the empty document as well.                                             *)
(***************************************************************************)
C4_LoadNeverRaises ==
    [][LoadsFile =>
          /\ file.k \in {"missing", "blank", "malformed"} =>
                 cards' = << >> /\ wishlist' = << >>
          /\ file.k = "malformed" => "invalid_json" \in msg']_vars

(***************************************************************************)
(* C5.  After a load every record of the current list has card_name,       *)
(* welcome_points, opened_date, issuer and benefits, and every record of   *)
(* the wishlist has card_name, issuer, target_points and notes, whatever   *)
(* the elements of the file are; the load does not fail on them.           *)
(***************************************************************************)
C5_LoadDefaults ==
    [][LoadsFile =>
          /\ pc' # "crashed"
          /\ (file.k = "json" /\ file.j.t = "array") => Len(cards') = Len(file.j.v)
          /\ \A i \in DOMAIN cards' :
                 cards'[i].t = "dict" /\ CardKeys \subseteq DOMAIN cards'[i].f
          /\ \A i \in DOMAIN wishlist' :
                 wishlist'[i].t = "dict" /\ WishKeys \subseteq DOMAIN wishlist'[i].f]_vars

(***************************************************************************)
(* C6.  In every front-end an add appends a current card only if its name  *)
(* is not empty after trimming, its points are an integer greater than 0   *)
(* and its date is a YYYY-MM-DD calendar date.                             *)
(***************************************************************************)
AcceptedRecord(card) ==
    /\ Strip(card.f["card_name"]) # STR_empty
    /\ card.f["welcome_points"] > 0
    /\ ParseWith(card.f["opened_date"], FMT_iso).ok

C6_AddOnlyValid == [][AddedCard => AcceptedRecord(cards'[Len(cards')])]_vars

(***************************************************************************)
(* C7.  An add whose input has an invalid field is rejected with a message *)
(* that names a field which is invalid, and leaves the current list and    *)
(* the wishlist as they were.                                              *)
(***************************************************************************)
NameInvalid(name) == Strip(name) = STR_empty
DateInvalid(date) == ~ParseWith(Strip(date), FMT_iso).ok

Rejected(fieldMsgs) ==
    /\ cards' = cards
    /\ wishlist' = wishlist
    /\ msg' # {}
    /\ msg' \subseteq fieldMsgs

C7_InvalidRejected ==
    [][/\ \A in \in WebCardInputs :
              (WebAddCard(in) /\ (NameInvalid(in.name) \/ in.points <= 0 \/ DateInvalid(in.date)))
                  => Rejected((IF NameInvalid(in.name) THEN {"name_required"} ELSE {})
                              \cup (IF in.points <= 0 THEN {"points_invalid"} ELSE {})
                              \cup (IF DateInvalid(in.date)
                                    THEN {"date_required", "date_invalid"} ELSE {}))
       /\ \A in \in GuiInputs :
              (GuiAdd(in.name, in.points, in.date)
                  /\ (NameInvalid(in.name) \/ ~validate_points(in.points) \/ DateInvalid(in.date)))
                  => Rejected((IF NameInvalid(in.name) THEN {"name_empty"} ELSE {})
                              \cup (IF ~validate_points(in.points) THEN {"points_invalid"} ELSE {})
                              \cup (IF DateInvalid(in.date) THEN {"date_invalid"} ELSE {}))
       /\ \A n \in NameInputs :
              (CliAddName(n) /\ NameInvalid(n)) => Rejected({"name_empty"})
       /\ \A p \in PointsInputs :
              (CliAddPoints(p) /\ ~validate_points(p)) => Rejected({"points_invalid"})
       /\ \A d \in DateInputs :
              (CliAddDate(d) /\ DateInvalid(d)) => Rejected({"date_invalid"})]_vars

(***************************************************************************)
(* C8.  The count of compute_5_24 is the number of current cards whose     *)
(* issuer contains "chase" in any letter case and whose opened_date, read  *)
(* by one of the accepted formats, is no earlier than now minus 730 days   *)
(* and no later than now.                                                  *)
(***************************************************************************)
AcceptedFormatSet == {ACCEPTED_FORMATS[k] : k \in DOMAIN ACCEPTED_FORMATS}

Readable(card) ==
    \E fmt \in AcceptedFormatSet : ParseWith(Strip(card.f["opened_date"]), fmt).ok

OpenedDay(card) ==
    LET fmt == CHOOSE g \in AcceptedFormatSet : ParseWith(Strip(card.f["opened_date"]), g).ok
    IN  ParseWith(Strip(card.f["opened_date"]), fmt).ord

IssuedByChase(card) ==
    \E i \in 1..Len(card.f["issuer"]) :
        /\ i + 4 <= Len(card.f["issuer"])
        /\ \A j \in 0..4 : LowerChar(card.f["issuer"][i + j]) = STR_chase[j + 1]

NotBeforeWindow(card) == DtGE(<<OpenedDay(card), 0>>, <<now[1] - 730, now[2]>>)

NotAfterNow(card) == DtGE(now, <<OpenedDay(card), 0>>)

C8_CountInWindow ==
    metrics.shown =>
        metrics.chase_count =
            Cardinality({i \in DOMAIN cards :
                            /\ IssuedByChase(cards[i])
                            /\ Readable(cards[i])
                            /\ NotBeforeWindow(cards[i])
                            /\ NotAfterNow(cards[i])})

(***************************************************************************)
(* C9.  next_eligible_date is the oldest opened_date among the cards       *)
(* counted plus 730 days, and is "N/A" exactly when the count is 0.        *)
(***************************************************************************)
\* the day the text is read as by the accepted formats that read it, 0 when
\* none does
DayFrom(text, okFormats) ==
    IF okFormats = {} THEN 0 ELSE ParseWith(text, CHOOSE g \in okFormats : TRUE).ord

DayRead(text) == DayFrom(text, {fmt \in AcceptedFormatSet : ParseWith(text, fmt).ok})

\* the opened day of a card that is counted, 0 for a card that is not
CountedDay(card, day) ==
    IF IssuedByChase(card) /\ day # 0 /\ DtGE(<<day, 0>>, <<now[1] - 730, now[2]>>)
    THEN day ELSE 0

\* the positions of the counted cards, each with its opened day
CountedDaysOf(list) ==
    {p \in {<<i, CountedDay(list[i], DayRead(Strip(list[i].f["opened_date"])))>> :
                i \in DOMAIN list} : p[2] # 0}

OldestCounted(days) == CHOOSE p \in days : \A q \in days : p[2] <= q[2]

NextEligibleFor(days) ==
    /\ metrics.chase_count = Cardinality(days)
    /\ (metrics.next_drop = STR_NA) <=> (metrics.chase_count = 0)
    /\ metrics.chase_count > 0 =>
           metrics.next_drop = StrfIso(OldestCounted(days)[2] + 730)

C9_NextEligible == metrics.shown => NextEligibleFor(CountedDaysOf(cards))

C9_Witness ==
    /\ metrics.shown
    /\ Len(cards) = 2
    /\ metrics.chase_count = 2
    /\ OpenedDay(cards[1]) < OpenedDay(cards[2])
    /\ metrics.next_drop = <<"2", "0", "2", "6", "-", "0", "3", "-", "0", "9">>

(***************************************************************************)
(* C10.  total_points is the sum of welcome_points over the current list   *)
(* and total_wishlist_points the sum of target_points over the wishlist,   *)
(* after any sequence of loads, adds and deletes; both are 0 for an empty  *)
(* list.                                                                   *)
(***************************************************************************)
RECURSIVE SumUpTo(_, _, _)
SumUpTo(list, key, n) ==
    IF n = 0 THEN 0 ELSE SumUpTo(list, key, n - 1) + list[n].f[key]

C10_Totals ==
    metrics.shown =>
        /\ metrics.total_pts = SumUpTo(cards, "welcome_points", Len(cards))
        /\ metrics.wish_pts = SumUpTo(wishlist, "target_points", Len(wishlist))
        /\ cards = << >> => metrics.total_pts = 0
        /\ wishlist = << >> => metrics.wish_pts = 0

C10_Witness ==
    /\ metrics.shown
    /\ Len(cards) = 2
    /\ cards[1].f["welcome_points"] = 6
    /\ cards[2].f["welcome_points"] = 0
    /\ Len(wishlist) = 1
    /\ wishlist[1].f["target_points"] = 9
    /\ metrics.total_pts = 6
    /\ metrics.wish_pts = 9

(***************************************************************************)
(* C11.  No update in place: an add appends exactly one record at the end  *)
(* of its list and keeps every record already there, in order; a delete of *)
(* index i removes exactly the record at position i and keeps the others   *)
(* in order; listing, saving and computing the metrics change no record of *)
(* either list.                                                            *)
(***************************************************************************)
AppendedOne(old, new) ==
    /\ Len(new) = Len(old) + 1
    /\ \A j \in DOMAIN old : new[j] = old[j]

RemovedAt(old, new, i) ==
    /\ i \in DOMAIN old
    /\ Len(new) = Len(old) - 1
    /\ \A j \in DOMAIN new : new[j] = IF j < i THEN old[j] ELSE old[j + 1]

\* a step that lists, saves, or only computes and shows the metrics
ReadOnlyStep ==
    \/ CliList
    \/ CliInvalidChoice
    \/ CliInterrupt
    \/ \E io \in SaveOutcomes : CliSaveExit(io) \/ GuiSave(io) \/ GuiClose(io) \/ WebSave(io)
    \/ /\ ~LoadsFile
       /\ ~LoadsUpload
       /\ \E up \in Uploads : WebRun(up)

C11_NoUpdateInPlace ==
    [][/\ msg' = {"added"} =>
              \/ AppendedOne(cards, cards') /\ wishlist' = wishlist
              \/ AppendedOne(wishlist, wishlist') /\ cards' = cards
       /\ \A i \in 1..(MaxCards + 1) :
              \/ RemovedAt(cards, cards', i) /\ wishlist' = wishlist
              \/ ~(WebDeleteCurrent(i) \/ GuiDelete(i, TRUE))
       /\ \A i \in 1..(MaxWish + 1) :
              \/ RemovedAt(wishlist, wishlist', i) /\ cards' = cards
              \/ ~WebDeleteWish(i)
       /\ \/ cards' = cards /\ wishlist' = wishlist
          \/ ~ReadOnlyStep]_vars

\* the first of two cards was deleted in the desktop front-end
C11_Witness ==
    /\ fe = "gui"
    /\ msg = {"deleted"}
    /\ Len(cards) = 1
    /\ cards[1].f["card_name"] = <<"B">>
    /\ tree = Rows(cards)

(***************************************************************************)
(* C12.  The persisted file is written only by an explicit save or by the  *)
(* save of a normal exit: a load, a listing, an add, a delete and an       *)
(* interrupted run that never reached the save leave the file as it was.   *)
(***************************************************************************)
SaveStep ==
    \E io \in SaveOutcomes : CliSaveExit(io) \/ GuiSave(io) \/ GuiClose(io) \/ WebSave(io)

C12_WriteOnlyOnSave ==
    [][/\ file' # file => SaveStep
       /\ \/ file' = file
          \/ ~(\/ LoadsFile
               \/ LoadsUpload
               \/ CliList
               \/ CliInterrupt
               \/ msg' \in {{"added"}, {"deleted"}}
               \/ \E i \in 1..(MaxCards + 1) : WebDeleteCurrent(i)
               \/ \E i \in 1..(MaxWish + 1) : WebDeleteWish(i))]_vars

\* a card was added and the run interrupted: the file is still absent
C12_Witness ==
    /\ fe = "cli"
    /\ pc = "done"
    /\ msg = {"interrupted"}
    /\ Len(cards) = 1
    /\ file = F_missing

(***************************************************************************)
(* C13.  When the write fails, the save reports the failure and raises it  *)
(* to its caller, it never returns normally, and the records in memory are *)
(* the same after the failed save.                                         *)
(***************************************************************************)
\* the write of the store fails: the environment refuses it, or the
\* directory of the path is absent
StoreWriteFails(io) == io # "ok" \/ file.k = "nodir"

ReportedAndRaised(callerMsg) ==
    /\ "save_error" \in msg'
    /\ callerMsg \in msg'
    /\ "saved" \notin msg'
    /\ cards' = cards
    /\ wishlist' = wishlist

C13_SaveFailurePropagates ==
    [][\A io \in SaveOutcomes :
          /\ (StoreWriteFails(io) /\ CliSaveExit(io)) => ReportedAndRaised("unexpected_error")
          /\ (StoreWriteFails(io) /\ (GuiSave(io) \/ GuiClose(io))) =>
                 ReportedAndRaised("save_failed")
          /\ (io # "ok" /\ WebSave(io)) => ReportedAndRaised("uncaught_exception")]_vars

\* the save button of the desktop front-end failed with two cards in memory
C13_Witness ==
    /\ fe = "gui"
    /\ pc = "running"
    /\ msg = {"save_error", "save_failed"}
    /\ Len(cards) = 2
    /\ file = F_blank

(***************************************************************************)
(* C14.  After a save that failed, also the save made on exit, the session *)
(* is still running with its records in memory, so that the save can be    *)
(* tried again; the run does not end with the unsaved records discarded.   *)
(***************************************************************************)
C14_RetryAfterFailedSave ==
    [][(SaveStep /\ "save_error" \in msg') =>
          /\ pc' \notin {"done", "crashed"}
          /\ cards' = cards
          /\ wishlist' = wishlist]_vars

(***************************************************************************)
(* C15.  A save to a path whose directory does not exist creates the       *)
(* directory, succeeds and leaves the file written, whichever save         *)
(* function is used.                                                       *)
(***************************************************************************)
C15_SaveCreatesParent ==
    [][(/\ file.k = "nodir"
        /\ CliSaveExit("ok") \/ GuiSave("ok") \/ GuiClose("ok") \/ WebSave("ok")) =>
          /\ file'.k = "json"
          /\ "save_error" \notin msg']_vars

(***************************************************************************)
(* C16.  Once add is chosen in the command-line menu, the card name, the   *)
(* welcome points and the opened date are each asked again until valid:    *)
(* the add does not go back to the menu before every field has a valid     *)
(* value, and then it has appended exactly one card.                       *)
(***************************************************************************)
C16_AddReprompts ==
    [][/\ (\E n \in NameInputs : CliAddName(n)) => pc' # "menu"
       /\ (fe = "cli" /\ pc \in {"points", "date"} /\ pc' = "menu") =>
              /\ AppendedOne(cards, cards')
              /\ AcceptedRecord(cards'[Len(cards')])]_vars

(***************************************************************************)
(* C17.  After any loads, adds and deletes every record of the current     *)
(* list has a non-empty card_name, a non-negative integer welcome_points   *)
(* and an opened_date that is a valid YYYY-MM-DD date, and every record of *)
(* the wishlist has a non-negative integer target_points.                  *)
(***************************************************************************)
ValidCardRecord(card) ==
    /\ card.t = "dict"
    /\ LegacyKeys \subseteq DOMAIN card.f
    /\ card.f["card_name"] # STR_empty
    /\ card.f["welcome_points"] \in Nat
    /\ ParseWith(card.f["opened_date"], FMT_iso).ok

ValidWishRecord(card) ==
    /\ card.t = "dict"
    /\ "target_points" \in DOMAIN card.f
    /\ card.f["target_points"] \in Nat

C17_DataModel ==
    /\ \A i \in DOMAIN cards : ValidCardRecord(cards[i])
    /\ \A i \in DOMAIN wishlist : ValidWishRecord(wishlist[i])

(***************************************************************************)
(* C18.  A run that loads a file of either persisted format and saves      *)
(* with no add or delete in between leaves the file holding the records it *)
(* held before, in every front-end.                                        *)
(***************************************************************************)
\* the two lists a persisted file of either format holds
FileRecords(f) ==
    IF IsStructured(f)
    THEN [current |-> f.j.f["current"].v, wishlist |-> f.j.f["wishlist"].v]
    ELSE [current |-> f.j.v, wishlist |-> << >>]

\* every record of old is in new at the same position with its known fields
KeepsRecords(old, new, keys) ==
    /\ Len(new) = Len(old)
    /\ \A i \in DOMAIN old :
           /\ new[i].t = "object"
           /\ \A k \in keys \cap DOMAIN old[i].f :
                  k \in DOMAIN new[i].f /\ new[i].f[k] = old[i].f[k]

\* the lists in memory are those the front-end loads from the file
InMemoryAsLoaded ==
    IF fe = "web"
    THEN /\ LocalText(file).ok
         /\ cards = LocalText(file).current
         /\ wishlist = LocalText(file).wishlist
    ELSE cards = load_cards(file).cards

C18_LoadSaveKeepsRecords ==
    [][(/\ IsArrayOfObjects(file) \/ IsStructured(file)
        /\ InMemoryAsLoaded
        /\ CliSaveExit("ok") \/ GuiSave("ok") \/ GuiClose("ok") \/ WebSave("ok")) =>
          /\ IsArrayOfObjects(file') \/ IsStructured(file')
          /\ KeepsRecords(FileRecords(file).current, FileRecords(file').current, CardKeys)
          /\ KeepsRecords(FileRecords(file).wishlist, FileRecords(file').wishlist,
                          WishKeys)]_vars

(***************************************************************************)
(* C19.  parse_json_data gives as many current records as the "current"    *)
(* list of the document has elements and as many wishlist records as its   *)
(* "wishlist" list has; a structured document without a "current" list     *)
(* gives an empty current list, never a record that was not in it.         *)
(***************************************************************************)
ListLength(obj, key) ==
    IF key \in DOMAIN obj.f /\ obj.f[key].t = "array" THEN Len(obj.f[key].v) ELSE 0

C19_ParseCounts ==
    [][(fe = "web" /\ LoadsFile /\ file.k = "json" /\ file.j.t = "object") =>
          /\ Len(cards') = ListLength(file.j, "current")
          /\ Len(wishlist') = ListLength(file.j, "wishlist")]_vars

(***************************************************************************)
(* C20.  The browser front-end loads its lists from the data source only   *)
(* in the first run and when the mode changes between local and uploaded:  *)
(* in a run that keeps the mode, the records added and deleted in the      *)
(* session stay, the file never replaces them; and after the load phase of *)
(* a run without an uploaded file the mode is "local".                     *)
(***************************************************************************)
\* what a run that keeps the mode may do to a list: nothing, or the append
\* or the removal its button asked for
KeptOrEdited(old, new) ==
    \/ new = old
    \/ AppendedOne(old, new) /\ msg' = {"added"}
    \/ \E i \in DOMAIN old : RemovedAt(old, new, i)

C20_ReloadOnlyOnModeChange ==
    [][fe = "web" =>
          /\ (pc = "running" /\ mode' = mode) =>
                 /\ KeptOrEdited(cards, cards')
                 /\ KeptOrEdited(wishlist, wishlist')
                 /\ \/ cards' = cards /\ wishlist' = wishlist
                    \/ ~\E up \in Uploads : WebRun(up)
          /\ \/ cards' = cards /\ wishlist' = wishlist /\ mode' = mode
             \/ ~\E io \in SaveOutcomes : WebSave(io)
          /\ uploaded' = NoUpload => mode' = "local"]_vars

\* a run of the local mode that kept a deletion of the session although the
\* file still holds both cards
C20_Witness ==
    /\ fe = "web"
    /\ mode = "local"
    /\ uploaded = NoUpload
    /\ msg = {"name_required", "date_required"}
    /\ IsStructured(file)
    /\ Len(file.j.f["current"].v) = 2
    /\ Len(cards) = 1
    /\ cards[1].f["card_name"] = <<"U">>

(***************************************************************************)
(* C21.  In the desktop front-end the rows of the table are the cards of   *)
(* the list in memory, in the same order, after every add and delete, so   *)
(* that deleting the selected row removes exactly the card that row shows; *)
(* with no row selected, or with the confirmation declined, the list stays *)
(* as it was.                                                              *)
(***************************************************************************)
ShowsCard(row, card) ==
    /\ row[1] = card.f["card_name"]
    /\ row[2] = card.f["welcome_points"]
    /\ row[3] = card.f["opened_date"]

Mirrors(rows, list) ==
    /\ Len(rows) = Len(list)
    /\ \A i \in DOMAIN list : ShowsCard(rows[i], list[i])

C21_TableMirrorsList ==
    [][fe = "gui" =>
          /\ pc' = "running" => Mirrors(tree', cards')
          /\ \A sel \in 1..(MaxCards + 1) :
                 /\ GuiDelete(sel, TRUE) =>
                        /\ ShowsCard(tree[sel], cards[sel])
                        /\ RemovedAt(cards, cards', sel)
                 /\ GuiDelete(sel, FALSE) => cards' = cards
          /\ \A c \in BOOLEAN : GuiDelete(0, c) => cards' = cards]_vars

\* the second of two rows was selected and deleted: the first card is left
C21_Witness ==
    /\ fe = "gui"
    /\ pc = "running"
    /\ msg = {"deleted"}
    /\ Len(tree) = 1
    /\ tree[1] = <<S_A, 5, D_recent>>
    /\ Len(cards) = 1
    /\ cards[1].f["card_name"] = S_A
====
